---- MODULE Spec2Model ----
(***************************************************************************)
(* Pairwise cluster merging (merge_two) and the greedy aggregation loop    *)
(* (merge_clusters) of sequtil, src/src/merge.cpp.                         *)
(*                                                                         *)
(* Indices xidx, yidx, midx are 0-based as in the code; the position       *)
(* sequence of a cluster is a TLA+ sequence, so data[ i ] of the code is   *)
(* data[i + 1] here.                                                       *)
(***************************************************************************)
EXTENDS Integers, Sequences, FiniteSets, TLC

VARIABLES
    clusters,   \* vector< aligned_t > clusters
    args,       \* const args_t & args
    pc,         \* position in merge_clusters / in the function-level harness
    a, b,       \* the iterators a and b, as 1-based indices into clusters
    nclusters,  \* int nclusters
    repeat,     \* bool repeat
    ret,        \* the value merge_clusters returned
    out,        \* what the last call of merge_two produced (res, merged, ...)
    cmpOut,     \* the last call of pos_cmp made on its own: arguments, result
    heap,       \* the buffers malloc has handed out and free has not taken back
    nextBuf,    \* the next fresh buffer identity
    memErr,     \* a buffer was freed twice, or read after it was freed
    merges,     \* number of successful merges so far
    initSize,   \* clusters.size() when merge_clusters was entered
    pass,       \* number of the current pass of the do-while loop
    failed,     \* the pairs merge_two has refused: <<a's buffer, b's buffer, pass>>
    allocFails  \* number of malloc calls that returned NULL so far

vars == <<clusters, args, pc, a, b, nclusters, repeat, ret, out, cmpOut,
          heap, nextBuf, memErr, merges, initSize, pass, failed, allocFails>>

----------------------------------------------------------------------------
(* Bounds of the model *)

MaxClusters == 4
MaxLen == 2
MaxOverlap == 1
MaxReads == 2
MaxAllocFail == 1

Cols == {0, 1}
Inss == {0, 1}

----------------------------------------------------------------------------
(* util.cpp: the bit masks of the nucleotide codes the model uses *)

NucA == 1
NucC == 2
NucM == 3

Nucs == {NucA, NucC, NucM}

NULL == 0

----------------------------------------------------------------------------
(* merge.cpp: helpers *)

MAX(x, y) == IF x > y THEN x ELSE y
MIN(x, y) == IF x < y THEN x ELSE y

RECURSIVE BitAnd(_, _)
BitAnd(x, y) ==
    IF x = 0 \/ y = 0 THEN 0
    ELSE (x % 2) * (y % 2) + 2 * BitAnd(x \div 2, y \div 2)

pos_cmp(x, y) ==
    IF x.col > y.col THEN "GT"
    ELSE IF y.col > x.col THEN "LT"
    ELSE IF x.ins > y.ins THEN "GT"
    ELSE IF y.ins < x.ins THEN "LT"
    ELSE "EQ"

ncontrib_cmp(x, y) == x.ncontrib > y.ncontrib

----------------------------------------------------------------------------
(* merge.cpp: merge_two *)

\* aligned_t merged = { .data = NULL }: every other field is zero
EmptyAligned ==
    [data |-> <<>>, buf |-> NULL, len |-> 0, lpos |-> 0, rpos |-> 0, ncontrib |-> 0]

\* ABORT( msg ): return FAILURE, whatever the message
Abort(msg, merged) ==
    [res |-> "FAILURE", reason |-> msg, overlap |-> 0, mlen |-> merged.len,
     midx |-> 0, merged |-> merged]

\* for ( ; cmp == LT && xidx + 1 < xs.len; ) { ++xidx; cmp = pos_cmp( ... ); }
RECURSIVE SkipOverhangX(_, _, _, _)
SkipOverhangX(xs, ys, xidx, cmp) ==
    IF cmp = "LT" /\ xidx + 1 < xs.len
    THEN SkipOverhangX(xs, ys, xidx + 1, pos_cmp(xs.data[xidx + 2], ys.data[1]))
    ELSE [idx |-> xidx, cmp |-> cmp]

\* for ( ; cmp == GT && yidx + 1 < ys.len; ) { ++yidx; cmp = pos_cmp( ... ); }
RECURSIVE SkipOverhangY(_, _, _, _)
SkipOverhangY(xs, ys, yidx, cmp) ==
    IF cmp = "GT" /\ yidx + 1 < ys.len
    THEN SkipOverhangY(xs, ys, yidx + 1, pos_cmp(xs.data[1], ys.data[yidx + 2]))
    ELSE [idx |-> yidx, cmp |-> cmp]

\* "disregard overhangs": the indices and mlen after it, or the abort
Overhang(xs, ys, cfg) ==
    LET cmp == pos_cmp(xs.data[1], ys.data[1]) IN
    IF cmp = "LT" THEN
        LET s == SkipOverhangX(xs, ys, 0, cmp) IN
        [abort |-> s.cmp = "GT" /\ ~cfg.tol_gaps, reason |-> "no gaps in ys",
         xidx |-> s.idx, yidx |-> 0, mlen |-> s.idx]
    ELSE IF cmp = "GT" THEN
        LET s == SkipOverhangY(xs, ys, 0, cmp) IN
        [abort |-> s.cmp = "GT" /\ ~cfg.tol_gaps, reason |-> "no gaps in xs",
         xidx |-> 0, yidx |-> s.idx, mlen |-> s.idx]
    ELSE [abort |-> FALSE, reason |-> "", xidx |-> 0, yidx |-> 0, mlen |-> 0]

\* xs.nuc == ys.nuc || ( args.tol_ambigs && xs.nuc & ys.nuc )
Compatible(x, y, cfg) ==
    x.nuc = y.nuc \/ (cfg.tol_ambigs /\ BitAnd(x.nuc, y.nuc) # 0)

\* "compute the amount of overlap": the loop of lines 122-144
RECURSIVE OverlapWalk(_, _, _, _, _, _, _)
OverlapWalk(xs, ys, cfg, xidx, yidx, mlen, overlap) ==
    IF ~(xidx < xs.len /\ yidx < ys.len)
    THEN [abort |-> FALSE, reason |-> "", xidx |-> xidx, yidx |-> yidx,
          mlen |-> mlen, overlap |-> overlap]
    ELSE
        LET x == xs.data[xidx + 1]
            y == ys.data[yidx + 1]
            cmp == pos_cmp(x, y)
            stop(msg) == [abort |-> TRUE, reason |-> msg, xidx |-> xidx,
                          yidx |-> yidx, mlen |-> mlen, overlap |-> overlap]
        IN
        IF cmp = "LT" THEN
            IF ~cfg.tol_gaps THEN stop("no gaps in xs")
            ELSE OverlapWalk(xs, ys, cfg, xidx + 1, yidx, mlen + 1, overlap)
        ELSE IF cmp = "GT" THEN
            IF ~cfg.tol_gaps THEN stop("no gaps in ys")
            ELSE OverlapWalk(xs, ys, cfg, xidx, yidx + 1, mlen + 1, overlap)
        ELSE IF Compatible(x, y, cfg) THEN
            OverlapWalk(xs, ys, cfg, xidx + 1, yidx + 1, mlen + 1, overlap + 1)
        ELSE stop("mismatch")

\* "get the remainder of either xs or ys, whichever remains"
Remainder(xs, ys, xidx, yidx) ==
    IF xidx < xs.len THEN xs.len - xidx
    ELSE IF yidx < ys.len THEN ys.len - yidx
    ELSE 0

\* the record written for coinciding positions, lines 171-173
Combined(x, y) ==
    [x EXCEPT !.cov = x.cov + y.cov, !.nuc = MIN(x.nuc, y.nuc)]

\* a construction pass that copies both records of coinciding positions
RECURSIVE FillBoth(_, _, _, _, _)
FillBoth(xs, ys, xidx, yidx, done) ==
    IF xidx < xs.len /\ yidx < ys.len THEN
        LET x == xs.data[xidx + 1]
            y == ys.data[yidx + 1]
            cmp == pos_cmp(x, y)
        IN
        IF cmp = "LT" THEN FillBoth(xs, ys, xidx + 1, yidx, Append(done, x))
        ELSE IF cmp = "GT" THEN FillBoth(xs, ys, xidx, yidx + 1, Append(done, y))
        ELSE FillBoth(xs, ys, xidx + 1, yidx + 1, Append(Append(done, x), y))
    ELSE IF xidx < xs.len THEN done \o SubSeq(xs.data, xidx + 1, xs.len)
    ELSE IF yidx < ys.len THEN done \o SubSeq(ys.data, yidx + 1, ys.len)
    ELSE done

\* the construction pass, lines 164-185: the records written to merged.data
RECURSIVE Fill(_, _, _, _, _)
Fill(xs, ys, xidx, yidx, done) ==
    IF xidx < xs.len /\ yidx < ys.len THEN
        LET x == xs.data[xidx + 1]
            y == ys.data[yidx + 1]
            cmp == pos_cmp(x, y)
        IN
        IF cmp = "LT" THEN Fill(xs, ys, xidx + 1, yidx, Append(done, x))
        ELSE IF cmp = "GT" THEN Fill(xs, ys, xidx, yidx + 1, Append(done, y))
        ELSE Fill(xs, ys, xidx + 1, yidx + 1, Append(done, Combined(x, y)))
    ELSE IF xidx < xs.len THEN done \o SubSeq(xs.data, xidx + 1, xs.len)
    ELSE IF yidx < ys.len THEN done \o SubSeq(ys.data, yidx + 1, ys.len)
    ELSE done

\* a prediction that forgets the remainder
PredictedLenNoRemainder(w, xs, ys) == w.mlen

\* the length the first pass predicts, line 155
PredictedLen(w, xs, ys) == w.mlen + Remainder(xs, ys, w.xidx, w.yidx)

\* "if there is absolutely no hope to reach min_overlap, skip", lines 88-89
NoOpportunity(xs, ys, cfg) ==
    /\ xs.rpos < ys.lpos + cfg.min_overlap
    /\ ys.rpos < xs.lpos + cfg.min_overlap

\* merge_two; newBuf is what malloc returns: a fresh buffer, or NULL.
\* merged.data holds the records the construction pass wrote, merged.len the
\* predicted length, midx the number of records written.
merge_two(xs, ys, cfg, newBuf) ==
    IF xs.len = 0 \/ ys.len = 0 THEN Abort("insufficient length", EmptyAligned)
    ELSE IF NoOpportunity(xs, ys, cfg)
    THEN Abort("no opportunity for sufficient overlap", EmptyAligned)
    ELSE
        LET o == Overhang(xs, ys, cfg) IN
        IF o.abort THEN Abort(o.reason, EmptyAligned)
        ELSE
            LET w == OverlapWalk(xs, ys, cfg, o.xidx, o.yidx, o.mlen, 0) IN
            IF w.abort THEN Abort(w.reason, EmptyAligned)
            ELSE IF w.overlap < cfg.min_overlap
            THEN Abort("insufficient overlap", EmptyAligned)
            ELSE
                LET mlen == PredictedLen(w, xs, ys)
                    hdr == [data |-> <<>>, buf |-> newBuf, len |-> mlen,
                            lpos |-> MIN(xs.lpos, ys.lpos),
                            rpos |-> MAX(xs.rpos, ys.rpos),
                            ncontrib |-> xs.ncontrib + ys.ncontrib]
                IN
                IF newBuf = NULL THEN Abort("memory allocation error", hdr)
                ELSE
                    LET recs == Fill(xs, ys, 0, 0, <<>>) IN
                    [res |-> "SUCCESS", reason |-> "", overlap |-> w.overlap,
                     mlen |-> mlen, midx |-> Len(recs),
                     merged |-> [hdr EXCEPT !.data = recs]]

\* aligned_destroy: free( read.data ); read.data = NULL; read.len = 0
aligned_destroy(read) == [read EXCEPT !.data = <<>>, !.buf = NULL, !.len = 0]

----------------------------------------------------------------------------
(* The inputs: clusters as the producer of the collection hands them over *)

PosRecs(cols, inss, nucs) == [col : cols, ins : inss, nuc : nucs, cov : {1}]

\* the order the position records of a cluster are stored in
KeyLess(x, y) == x.col < y.col \/ (x.col = y.col /\ x.ins < y.ins)

Ascending(s) == \A i \in 1..(Len(s) - 1) : KeyLess(s[i], s[i + 1])

PosSeqs(recs, n) ==
    {s \in UNION {[1..k -> recs] : k \in 1..n} : Ascending(s)}

\* a cluster of one read: its bounds are the first and the last column
Read(s, buf) ==
    [data |-> s, buf |-> buf, len |-> Len(s), lpos |-> s[1].col,
     rpos |-> s[Len(s)].col, ncontrib |-> 1]

ArgsSet(overlaps, reads) ==
    [min_overlap : overlaps, min_reads : reads,
     tol_gaps : BOOLEAN, tol_ambigs : BOOLEAN]

NoOut ==
    [res |-> "NONE", reason |-> "", overlap |-> 0, mlen |-> 0, midx |-> 0,
     merged |-> EmptyAligned]

NoCmp == [x |-> <<>>, y |-> <<>>, r |-> "NONE"]

\* what malloc may return: the next fresh buffer, or NULL
MallocResults == {nextBuf} \cup (IF allocFails < MaxAllocFail THEN {NULL} ELSE {})

----------------------------------------------------------------------------
(* merge.cpp: merge_clusters *)

\* The reads of a collection cover one position each; longer clusters come
\* from merging.  Every read enters with ncontrib = 1, so the first sort may
\* leave the collection in any order: Init lists each collection once, in
\* descending order of its reads, and Sort produces the other orders.
Pos(col, ins, nuc) == [col |-> col, ins |-> ins, nuc |-> nuc, cov |-> 1]

AggReads == {<<Pos(0, 0, NucA)>>, <<Pos(0, 1, NucM)>>, <<Pos(1, 0, NucA)>>}

RecRank(r) == (r.col * 16 + r.ins) * 16 + r.nuc

Collections ==
    UNION {{rs \in [1..n -> AggReads] :
              \A i \in 1..(n - 1) : RecRank(rs[i][1]) >= RecRank(rs[i + 1][1])} :
           n \in 0..MaxClusters}

Init ==
    /\ \E rs \in Collections :
            clusters = [i \in 1..Len(rs) |-> Read(rs[i], i)]
    /\ args \in ArgsSet(0..MaxOverlap, 1..MaxReads)
    /\ pc = "start"
    /\ a = 1 /\ b = 2
    /\ nclusters = 0
    /\ repeat = FALSE
    /\ ret = 0
    /\ out = NoOut
    /\ cmpOut = NoCmp
    /\ heap = {clusters[i].buf : i \in 1..Len(clusters)}
    /\ nextBuf = Len(clusters) + 1
    /\ memErr = FALSE
    /\ merges = 0
    /\ initSize = Len(clusters)
    /\ pass = 0
    /\ failed = {}
    /\ allocFails = 0

Injections(n) == {p \in [1..n -> 1..n] : \A i, j \in 1..n : i # j => p[i] # p[j]}

\* sort( clusters.begin(), clusters.end(), ncontrib_cmp ): any arrangement in
\* which no element has to come before an earlier one
Sorted(cs) ==
    {[i \in 1..Len(cs) |-> cs[p[i]]] : p \in
        {q \in Injections(Len(cs)) :
            \A i, j \in 1..Len(cs) : i < j => ~ncontrib_cmp(cs[q[j]], cs[q[i]])}}

\* an erase that removes nothing
EraseNothing(cs, i) == cs

\* clusters.erase( b )
Erase(cs, i) == [k \in 1..(Len(cs) - 1) |-> IF k < i THEN cs[k] ELSE cs[k + 1]]

\* a forgotten free: the heap keeps the buffer
FreeNothing(h, p) == h

\* free( p ) on the heap h
Free(h, p) == h \ {p}
BadFree(h, p) == p # NULL /\ p \notin h

\* a scan of b that starts at the front of the collection
FirstBFromBegin(i) == 1

\* for ( b = a + 1; ...
FirstB(i) == i + 1

\* the pass start without nclusters = 0
SortKeepingCount ==
    /\ pc = "start"
    /\ clusters' \in Sorted(clusters)
    /\ repeat' = FALSE
    /\ a' = 1
    /\ b' = IF Len(clusters) >= 1 THEN FirstB(1) ELSE b
    /\ pass' = pass + 1
    /\ pc' = "scan"
    /\ UNCHANGED <<args, nclusters, ret, out, cmpOut, heap, nextBuf, memErr,
                   merges, initSize, failed, allocFails>>

\* b = a + 1 (line 215) is reached only when a != clusters.end(): on an empty
\* collection b keeps the value it had.
\* do { repeat = false; sort( ... ); for ( nclusters = 0, a = clusters.begin(); ...
Sort ==
    /\ pc = "start"
    /\ clusters' \in Sorted(clusters)
    /\ repeat' = FALSE
    /\ nclusters' = 0
    /\ a' = 1
    /\ b' = IF Len(clusters) >= 1 THEN FirstB(1) ELSE b
    /\ pass' = pass + 1
    /\ pc' = "scan"
    /\ UNCHANGED <<args, ret, out, cmpOut, heap, nextBuf, memErr, merges,
                   initSize, failed, allocFails>>

\* one iteration of the loop over b: merge_two( *a, *b, args, merged ) and what
\* merge_clusters does with its result
Attempt ==
    /\ pc = "scan"
    /\ a <= Len(clusters) /\ b <= Len(clusters)
    /\ \E newBuf \in MallocResults :
        LET xs == clusters[a]
            ys == clusters[b]
            r == merge_two(xs, ys, args, newBuf)
            called == r.res = "SUCCESS" \/ r.reason = "memory allocation error"
            stale == \/ xs.len > 0 /\ xs.buf \notin heap
                     \/ ys.len > 0 /\ ys.buf \notin heap
            h0 == IF r.merged.buf # NULL THEN heap \cup {r.merged.buf} ELSE heap
        IN
        /\ out' = r
        /\ nextBuf' = IF r.merged.buf # NULL THEN nextBuf + 1 ELSE nextBuf
        /\ allocFails' = IF called /\ newBuf = NULL THEN allocFails + 1 ELSE allocFails
        /\ IF r.res = "SUCCESS" THEN
               /\ clusters' = Erase([clusters EXCEPT ![a] = r.merged,
                                                    ![b] = aligned_destroy(ys)], b)
               /\ heap' = Free(Free(h0, xs.buf), ys.buf)
               /\ memErr' = (memErr \/ stale \/ BadFree(h0, xs.buf)
                                \/ BadFree(Free(h0, xs.buf), ys.buf))
               /\ repeat' = TRUE
               /\ merges' = merges + 1
               /\ b' = FirstB(a)
               /\ UNCHANGED <<pc, ret, failed>>
           ELSE IF r.res = "ERROR" THEN
               /\ pc' = "done"
               /\ ret' = -1
               /\ heap' = h0
               /\ memErr' = (memErr \/ stale)
               /\ UNCHANGED <<clusters, repeat, merges, b, failed>>
           ELSE
               /\ b' = b + 1
               /\ failed' = failed \cup {<<xs.buf, ys.buf, pass>>}
               /\ heap' = h0
               /\ memErr' = (memErr \/ stale)
               /\ UNCHANGED <<clusters, repeat, merges, pc, ret>>
    /\ UNCHANGED <<args, a, nclusters, cmpOut, initSize, pass>>

\* the loop over b is through: if ( a->ncontrib >= args.min_reads ) ++nclusters; ++a
\* and, when a is not yet clusters.end(), b = a + 1; otherwise b stays at end()
NextA ==
    /\ pc = "scan"
    /\ a <= Len(clusters) /\ b > Len(clusters)
    /\ nclusters' = IF clusters[a].ncontrib >= args.min_reads
                     THEN nclusters + 1 ELSE nclusters
    /\ a' = a + 1
    /\ b' = IF a + 1 <= Len(clusters) THEN FirstB(a + 1) ELSE b
    /\ UNCHANGED <<clusters, args, pc, repeat, ret, out, cmpOut, heap, nextBuf,
                   memErr, merges, initSize, pass, failed, allocFails>>

\* a == clusters.end(): } while ( repeat ); return nclusters;
EndPass ==
    /\ pc = "scan"
    /\ a > Len(clusters)
    /\ IF repeat
       THEN pc' = "start" /\ ret' = ret
       ELSE pc' = "done" /\ ret' = nclusters
    /\ UNCHANGED <<clusters, args, a, b, nclusters, repeat, out, cmpOut, heap,
                   nextBuf, memErr, merges, initSize, pass, failed, allocFails>>

Next == Sort \/ Attempt \/ NextA \/ EndPass

Spec == Init /\ [][Next]_vars

\* merge_clusters is one sequential call: it keeps running until it returns
FairSpec == Spec /\ WF_vars(Next)

----------------------------------------------------------------------------
(* merge_two and pos_cmp called on their own, on every pair of clusters *)

MergeInputs ==
    {EmptyAligned} \cup {Read(s, 1) : s \in PosSeqs(PosRecs(Cols, Inss, Nucs), MaxLen)}

InitMerge ==
    /\ \E xs \in MergeInputs : \E ys \in MergeInputs :
            clusters = <<xs, IF ys.buf = NULL THEN ys ELSE [ys EXCEPT !.buf = 2]>>
    /\ args \in ArgsSet(0..MaxOverlap, {1})
    /\ pc = "input"
    /\ a = 1 /\ b = 2
    /\ nclusters = 0
    /\ repeat = FALSE
    /\ ret = 0
    /\ out = NoOut
    /\ cmpOut = NoCmp
    /\ heap = {clusters[i].buf : i \in 1..2} \ {NULL}
    /\ nextBuf = 3
    /\ memErr = FALSE
    /\ merges = 0
    /\ initSize = 2
    /\ pass = 0
    /\ failed = {}
    /\ allocFails = 0

\* res = merge_two( xs, ys, args, merged )
CallMergeTwo ==
    /\ pc = "input"
    /\ \E newBuf \in MallocResults :
        LET r == merge_two(clusters[a], clusters[b], args, newBuf)
            called == r.res = "SUCCESS" \/ r.reason = "memory allocation error"
        IN
        /\ out' = r
        /\ heap' = IF r.merged.buf # NULL THEN heap \cup {r.merged.buf} ELSE heap
        /\ nextBuf' = IF r.merged.buf # NULL THEN nextBuf + 1 ELSE nextBuf
        /\ allocFails' = IF called /\ newBuf = NULL THEN allocFails + 1 ELSE allocFails
    /\ pc' = "merged"
    /\ UNCHANGED <<clusters, args, a, b, nclusters, repeat, ret, cmpOut,
                   memErr, merges, initSize, pass, failed>>

\* pos_cmp( xs.data[ 0 ], ys.data[ 0 ] ), the first comparison merge_two makes
CallPosCmp ==
    /\ pc = "input"
    /\ clusters[a].len > 0 /\ clusters[b].len > 0
    /\ cmpOut' = [x |-> clusters[a].data[1], y |-> clusters[b].data[1],
                  r |-> pos_cmp(clusters[a].data[1], clusters[b].data[1])]
    /\ pc' = "compared"
    /\ UNCHANGED <<clusters, args, a, b, nclusters, repeat, ret, out, heap,
                   nextBuf, memErr, merges, initSize, pass, failed, allocFails>>

NextMerge == CallMergeTwo \/ CallPosCmp

SpecMerge == InitMerge /\ [][NextMerge]_vars

----------------------------------------------------------------------------
(* Properties *)

\* the pair merge_clusters is about to pass to merge_two
AttemptPending == pc = "scan" /\ a <= Len(clusters) /\ b <= Len(clusters)

Returned == pc = "done" /\ ret # -1

\* C1: pos_cmp orders position records lexicographically by (column,
\* insertion-index): LT, GT, EQ exactly when the key of x is smaller than,
\* greater than, equal to the key of y.
C1_PosCmpLexicographic ==
    pc = "compared" =>
        cmpOut.r = (IF KeyLess(cmpOut.x, cmpOut.y) THEN "LT"
                    ELSE IF KeyLess(cmpOut.y, cmpOut.x) THEN "GT"
                    ELSE "EQ")

\* C2: the value merge_clusters returns is the number of clusters of the final
\* collection with ncontrib >= min_reads; counts of passes that merged are gone.
C2_ReturnsFinalCount ==
    Returned =>
        ret = Cardinality({i \in 1..Len(clusters) :
                              clusters[i].ncontrib >= args.min_reads})

C2_Witness ==
    /\ Returned
    /\ pass >= 2
    /\ ret >= 1
    /\ ret < Len(clusters)

\* A measure of the work merge_clusters has left: the size of the collection
\* first, then whether another pass is owed, then the distance of a and b from
\* the end of the scan.
Rank ==
    LET n == Len(clusters)
        w == MaxClusters + 3
        owed == IF pc = "scan" /\ repeat THEN 2 ELSE IF pc = "start" THEN 1 ELSE 0
        scan == IF pc = "scan" THEN (n + 2 - a) * w + (n + 2 - b) ELSE 0
    IN (n * 3 + owed) * w * w + scan

\* merge_clusters has a step to take: the guards of Sort, Attempt, NextA, EndPass
CanStep ==
    \/ pc = "start" /\ Sorted(clusters) # {}
    \/ pc = "scan" /\ (a > Len(clusters) \/ b > Len(clusters) \/ MallocResults # {})

\* C3: merge_clusters terminates: every step lowers a measure that is never
\* negative, and until it returns there is a step to take; the collection
\* shrinks by one with every merge and by nothing else, so there are at most
\* initSize - 1 merges.
C3_Terminates ==
    [][/\ Rank' < Rank
       /\ Rank' >= 0
       /\ pc' # "done" => CanStep'
       /\ Len(clusters') = initSize' - merges'
       /\ Len(clusters') # Len(clusters) =>
              Len(clusters') = Len(clusters) - 1 /\ merges' = merges + 1
       /\ initSize' >= 1 => merges' <= initSize' - 1]_vars

\* C3, as a liveness property of FairSpec: merge_clusters returns
C3_EventuallyReturns == <>(pc = "done")

C3_Witness ==
    /\ Returned
    /\ initSize >= 3
    /\ merges = initSize - 1

\* C4: when malloc fails in merge_two, merge_two returns ERROR and
\* merge_clusters returns -1 at once.
C4_AllocFailureIsError ==
    out.reason = "memory allocation error" =>
        out.res = "ERROR" /\ pc = "done" /\ ret = -1

\* C5: merge_two gives up for lack of opportunity only when the intervals
\* [lpos, rpos] of the two clusters have fewer than min_overlap columns in common.
C5_FastRejectOnlyWithoutOpportunity ==
    (pc = "merged" /\ out.reason = "no opportunity for sufficient overlap") =>
        LET lo == MAX(clusters[1].lpos, clusters[2].lpos)
            hi == MIN(clusters[1].rpos, clusters[2].rpos)
            common == IF hi >= lo THEN hi - lo + 1 ELSE 0
        IN common < args.min_overlap

\* C6: when merge_clusters returns a count, no two clusters left in the
\* collection merge, in either order of the arguments.  (Stated for the runs in
\* which malloc never fails.)
C6_FixedPoint ==
    (Returned /\ allocFails = 0) =>
        \A i, j \in 1..Len(clusters) :
            i # j => merge_two(clusters[i], clusters[j], args, nextBuf).res # "SUCCESS"

\* C7 as claimed: a pair merge_two has refused is never passed to merge_two
\* again while both clusters are unchanged, in any pass.
C7_NeverRetried ==
    AttemptPending =>
        \A p \in 1..pass : <<clusters[a].buf, clusters[b].buf, p>> \notin failed

\* C7 as amended: within one pass, a pair merge_two has refused is not passed
\* to merge_two again, in either order, while both clusters are unchanged.
C7_NotRetriedWithinPass ==
    AttemptPending =>
        /\ <<clusters[a].buf, clusters[b].buf, pass>> \notin failed
        /\ <<clusters[b].buf, clusters[a].buf, pass>> \notin failed

C7_Witness ==
    /\ AttemptPending
    /\ \E p \in 1..(pass - 1) : <<clusters[a].buf, clusters[b].buf, p>> \in failed
    /\ \E t \in failed : t[3] = pass

\* C8: every live buffer is owned by exactly one cluster of the collection; no
\* buffer is freed twice or read after it was freed, and none is leaked.
C8_ExclusiveOwnership ==
    LET owned == {clusters[i].buf : i \in 1..Len(clusters)} IN
    /\ ~memErr
    /\ heap = owned
    /\ \A i, j \in 1..Len(clusters) : i # j => clusters[i].buf # clusters[j].buf
    /\ out.res # "SUCCESS" => out.merged.buf = NULL

C8_Witness ==
    /\ merges >= 2
    /\ allocFails >= 1
    /\ out.res = "FAILURE"
    /\ Len(clusters) >= 2

\* C9: if the records of both inputs are strictly ascending by (column,
\* insertion-index), so are the records of the cluster merge_two builds.
C9_MergedAscending ==
    (/\ pc = "merged" /\ out.res = "SUCCESS"
     /\ Ascending(clusters[1].data) /\ Ascending(clusters[2].data)) =>
        Ascending(out.merged.data)

C9_Witness ==
    /\ pc = "merged" /\ out.res = "SUCCESS"
    /\ out.overlap >= 1
    /\ Len(out.merged.data) >= 3
    /\ clusters[1].data[1].ins # clusters[2].data[1].ins

\* C10: on success the length the first pass predicts is the number of records
\* the construction pass writes, and both are xs.len + ys.len - overlap.
C10_PredictedLenIsWritten ==
    (pc = "merged" /\ out.res = "SUCCESS") =>
        /\ out.mlen = out.midx
        /\ out.midx = clusters[1].len + clusters[2].len - out.overlap
        /\ out.merged.len = Len(out.merged.data)

C10_Witness ==
    /\ pc = "merged" /\ out.res = "SUCCESS"
    /\ args.tol_gaps
    /\ out.overlap >= 1
    /\ out.mlen > out.overlap + 1

====
